---- MODULE Spec2Model ----
(***************************************************************************)
(* Model of osxdict.dictionary.DictionaryBody (klauer/pyosxdict): the      *)
(* reader of an Apple Dictionary body file.  The container is a 0x60-byte  *)
(* header followed by zlib-compressed blocks, each preceded by a 12-byte   *)
(* block header; a decompressed block is a run of length-prefixed entries. *)
(*                                                                         *)
(* Bytes are integers 0..255, decoded text is a sequence of code points.   *)
(* The compressed payload bytes are opaque: the file records, per block,   *)
(* its on-disk length and what zlib.decompress makes of it.                *)
(***************************************************************************)
EXTENDS Integers, Sequences, FiniteSets, TLC

\* ------------------------------------------------------------------ bounds

\* Largest number of blocks in a modelled container.
MaxBlocks == 2
\* Largest number of entries in a modelled container (all blocks together).
MaxEntries == 3

\* ------------------------------------------------------- program constants

\* ctypes.sizeof(DictHeader), structs.py:66
DictHeaderSize == 96
\* ctypes.sizeof(BlockHeader), structs.py:71
BlockHeaderSize == 12
\* ctypes.sizeof(EntryHeader): one c_uint, structs.py:46
EntryHeaderSize == 4
\* DictHeader.stream_length.offset, structs.py:63
StreamLengthOffset == 64
\* DictHeader.check.offset, structs.py:64
CheckOffset == 76
\* DictHeader.block_count.offset, structs.py:65
BlockCountOffset == 84
\* ctypes.sizeof(ctypes.c_uint), the width of every header field, structs.py:21
UIntSize == 4
\* BlockHeader.unpacked_length.offset, structs.py:70
UnpackedLengthOffset == 8
\* the valid check value, structs.py:31
CheckMagic == 32
\* the block length sanity ceiling 1e8, dictionary.py:197
BlockLengthCeiling == 100000000

\* ------------------------------------------------------------- option type

None == <<>>
Some(v) == <<v>>
IsNone(o) == o = <<>>
Get(o) == o[1]

\* ------------------------------------------------------------------- bytes

Min(a, b) == IF a < b THEN a ELSE b
Max(a, b) == IF a < b THEN b ELSE a

RECURSIVE Pow256(_)
Pow256(k) == IF k = 0 THEN 1 ELSE 256 * Pow256(k - 1)

\* The four little-endian bytes of a c_uint.
U32Bytes(n) ==
    << n % 256, (n \div 256) % 256, (n \div 65536) % 256, (n \div 16777216) % 256 >>

\* The c_uint held by four little-endian bytes.
U32Value(b) == b[1] + 256 * b[2] + 65536 * b[3] + 16777216 * b[4]

\* The bytes s[from+1 .. to] of s (Python s[from:to], 0-based, clamped).
Slice(s, from, to) ==
    LET hi == Min(to, Len(s))
    IN  IF from >= hi THEN <<>> ELSE [k \in 1..(hi - from) |-> s[from + k]]

RECURSIVE Zeros(_)
Zeros(n) == IF n <= 0 THEN <<>> ELSE <<0>> \o Zeros(n - 1)

\* stream.readinto(target) for an in-memory stream `buf` at position `pos`:
\* the first bytes of `target` are overwritten by what the stream still has,
\* the rest of `target` keeps its old content.
ReadInto(buf, pos, target) ==
    LET got == Slice(buf, pos, pos + Len(target))
    IN  [ bytes |-> [k \in 1..Len(target) |->
                        IF k <= Len(got) THEN got[k] ELSE target[k]],
          pos   |-> pos + Len(got) ]

\* bytes.decode('utf-8') restricted to one- and two-byte sequences (every lead
\* byte of a longer form, a stray continuation byte, an overlong two-byte form
\* and a truncated sequence are rejected): [ok, text].
RECURSIVE Utf8Decode(_)
Utf8Decode(b) ==
    IF b = <<>> THEN [ok |-> TRUE, text |-> <<>>]
    ELSE IF b[1] < 128
         THEN LET r == Utf8Decode(Tail(b))
              IN  [ok |-> r.ok, text |-> IF r.ok THEN <<b[1]>> \o r.text ELSE <<>>]
    ELSE IF b[1] >= 194 /\ b[1] < 224 /\ Len(b) >= 2 /\ b[2] >= 128 /\ b[2] < 192
         THEN LET r == Utf8Decode(Tail(Tail(b)))
                  cp == (b[1] - 192) * 64 + (b[2] - 128)
              IN  [ok |-> r.ok, text |-> IF r.ok THEN <<cp>> \o r.text ELSE <<>>]
    ELSE [ok |-> FALSE, text |-> <<>>]

\* str.index(sub): the 0-based position of the first occurrence of `sub` in
\* `s`, or -1 where Python raises ValueError.
StrIndex(s, sub) ==
    LET hits == { p \in 0..(Len(s) - Len(sub)) : Slice(s, p, p + Len(sub)) = sub }
    IN  IF hits = {} THEN -1 ELSE CHOOSE p \in hits : \A q \in hits : p <= q

\* ------------------------------------------------------- entries and blocks

\* The module is read with title_tag = 't' (dictionary.py:51 takes any tag).
TitleTag == <<116>>

\* '{}="'.format(self._title_tag): the tag, '=' and '"'.
TitleMarker == TitleTag \o <<61, 34>>

\* One entry on disk: its EntryHeader (the length) and its encoded text.
EntryBytes(text) == U32Bytes(Len(text)) \o text

RECURSIVE BlockData(_)
\* A decompressed block: its entries one after the other.
BlockData(texts) ==
    IF texts = <<>> THEN <<>> ELSE EntryBytes(Head(texts)) \o BlockData(Tail(texts))

\* The on-disk length of the zlib stream of `data`.  The stream's bytes are not
\* modelled, only its length: two header bytes, the deflate framing and the
\* four-byte Adler-32 trailer around the (here uncompressible) data.
ZLen(data) == Len(data) + 8

\* A block as written by the format: the header fields, the number of payload
\* bytes stored after the header, what they decompress to and the entry texts
\* that were written into it.  next_block counts from the block_length field.
MkBlock(texts) ==
    LET data == BlockData(texts)
    IN  [ next_block      |-> ZLen(data) + UnpackedLengthOffset,
          block_length    |-> ZLen(data),
          unpacked_length |-> Len(data),
          stored          |-> ZLen(data),
          data            |-> data,
          texts           |-> texts ]

RECURSIVE BlocksSize(_)
BlocksSize(blocks) ==
    IF blocks = <<>> THEN 0
    ELSE BlockHeaderSize + Head(blocks).stored + BlocksSize(Tail(blocks))

\* A whole body file: the header fields the reader uses, and the blocks.
MkFile(blocks) ==
    [ len           |-> DictHeaderSize + BlocksSize(blocks),
      check         |-> CheckMagic,
      stream_length |-> BlocksSize(blocks),
      block_count   |-> Len(blocks),
      blocks        |-> blocks ]

\* Where block i's header (0-based i) lies in file fl.
BlockStart(fl, i) == DictHeaderSize + BlocksSize(SubSeq(fl.blocks, 1, i))

\* ------------------------------------------------------------------- state

Threads == {"t1", "t2"}

VARIABLES
    file,        \* the body file on disk (never written)
    fopen,       \* self._f is not None
    fpos,        \* the position of the shared handle self._f
    meta,        \* None, or Some([stream_length, block_count]) once the header is read
    block_pos,   \* self._block_pos: None, or Some(block index -> file offset)
    index,       \* self._index: None, or Some(title -> list of BlockOffset)
    cache,       \* self._cache: None, or Some(title -> list of interpreted entries)
    lockOwner,   \* the thread inside `with self._lock` across steps, or "free"
    pc,          \* per thread: "idle", or the call it is in the middle of
    loc,         \* per thread: the locals of the call in progress
    iter,        \* per thread: its read_all_entries() generator
    last,        \* the latest step: thread, operation, outcome, file operations done
    nscans       \* how many times build_index started a full scan

vars == << file, fopen, fpos, meta, block_pos, index, cache, lockOwner,
           pc, loc, iter, last, nscans >>

\* ------------------------------------------------- the handle and its readers

\* The part of the object the file-reading methods work on.  `io` lists the
\* seeks and reads done on the handle by the step being taken.
World == [ fopen |-> fopen, fpos |-> fpos, meta |-> meta,
           block_pos |-> block_pos, io |-> <<>> ]

Ok(w, v) == [ w |-> w, exc |-> "none", val |-> v ]
Raise(w, e) == [ w |-> w, exc |-> e, val |-> <<>> ]

\* `r = <call>` followed by the code F that uses r.
With(r, F(_)) == F(r)

\* `<call>` followed by the code F, which runs unless the call raised.
Then(r, F(_)) == IF r.exc # "none" THEN r ELSE F(r)

\* f.seek(p)
Seek(w, p) == [ w EXCEPT !.fpos = p, !.io = @ \o << [k |-> "seek", at |-> p, n |-> 0] >> ]

\* The handle after reading (up to) n bytes at its position.
AfterRead(w, n) ==
    [ w EXCEPT !.fpos = IF w.fpos >= file.len THEN w.fpos ELSE Min(w.fpos + n, file.len),
               !.io = @ \o << [k |-> "read", at |-> w.fpos, n |-> n] >> ]

\* A c_uint field at file offset `off` of a structure read by readinto into a
\* fresh (zeroed) ctypes structure: the bytes the file does not have stay zero.
\* (The field values of the modelled files are below 2^31.)
FieldRead(value, off) ==
    LET have == Max(0, Min(UIntSize, file.len - off))
    IN  IF have >= UIntSize THEN value ELSE value % Pow256(have)

\* DictHeader.is_valid
IsValid(check) == check = CheckMagic

\* DictionaryBody._read_body_header
ReadBodyHeader(w0) ==
    LET w1 == AfterRead(Seek(w0, 0), DictHeaderSize)
        check == FieldRead(file.check, CheckOffset)
    IN  IF ~IsValid(check) THEN Raise(w1, "ValueError")
        ELSE Ok([ w1 EXCEPT
                    !.meta = Some([ stream_length |->
                                        FieldRead(file.stream_length, StreamLengthOffset),
                                    block_count |->
                                        FieldRead(file.block_count, BlockCountOffset) ]),
                    !.block_pos = Some((0 :> w1.fpos)) ], <<>>)

\* self._f = open(self.filename, 'rb'): a new handle, at position 0.
OpenHandle(w) == [ w EXCEPT !.fopen = TRUE, !.fpos = 0 ]

\* DictionaryBody.open, run by a caller that holds the lock throughout.
Open(w) == ReadBodyHeader(OpenHandle(w))

\* The BlockHeader that readinto fills at file position p.  The chains of the
\* modelled files lead to the start of a block or to the end of the file,
\* where nothing is read and the fresh header stays zero.
HeaderAt(p) ==
    LET at == { i \in 1..Len(file.blocks) : BlockStart(file, i - 1) = p }
    IN  IF at = {}
        THEN [ next_block |-> 0, block_length |-> 0, unpacked_length |-> 0 ]
        ELSE LET b == file.blocks[CHOOSE i \in at : TRUE]
             IN  [ next_block |-> b.next_block, block_length |-> b.block_length,
                   unpacked_length |-> b.unpacked_length ]

\* GetNextBlock without the offset of unpacked_length taken off.
GetNextBlockPlain(header, file_pos) == file_pos + header.next_block

\* BlockHeader.get_next_block
GetNextBlock(header, file_pos) == file_pos + header.next_block - UnpackedLengthOffset

\* The body of _read_block_header after the optional seek: read the header
\* where the handle stands.
ReadHeaderHere(w0) ==
    LET header == HeaderAt(w0.fpos)
        w1 == AfterRead(w0, BlockHeaderSize)
        next_block == GetNextBlock(header, w1.fpos)
    IN  IF header.block_length > BlockLengthCeiling THEN Raise(w1, "RuntimeError")
        ELSE Ok(w1, [ header |-> header, next_block |-> next_block ])

RECURSIVE FindBlocksLoop(_, _, _)
\* The for loop of _find_blocks from block i on, n = self._block_count.
FindBlocksLoop(w0, i, n) ==
    IF i >= n THEN Ok(w0, <<>>)
    ELSE Then(ReadHeaderHere([ w0 EXCEPT !.block_pos =
                                             Some((i :> w0.fpos) @@ Get(w0.block_pos)) ]),
              LAMBDA r : FindBlocksLoop(Seek(r.w, r.val.next_block), i + 1, n))

\* Whether _find_blocks takes the table for complete.
AlreadyFound(bp) == Cardinality(DOMAIN bp) > 1

\* DictionaryBody._find_blocks
FindBlocks(w0) ==
    Then(IF w0.fopen THEN Ok(w0, <<>>) ELSE Open(w0),
         LAMBDA r :
            IF IsNone(r.w.block_pos) THEN Raise(r.w, "TypeError")
            ELSE IF AlreadyFound(Get(r.w.block_pos)) THEN Ok(r.w, <<>>)
            ELSE FindBlocksLoop(Seek(r.w, Get(r.w.block_pos)[0]), 0,
                                Get(r.w.meta).block_count))

\* DictionaryBody.seek_block: the table is a dict, so a missing index raises
\* KeyError, which `except IndexError` does not catch.
SeekBlock(w0, block_index) ==
    Then(FindBlocks(w0),
         LAMBDA r :
            IF block_index \notin DOMAIN Get(r.w.block_pos) THEN Raise(r.w, "KeyError")
            ELSE Ok(Seek(r.w, Get(r.w.block_pos)[block_index]), <<>>))

\* DictionaryBody._read_block_header(index)
ReadBlockHeader(w0, idx) ==
    Then(SeekBlock(w0, idx), LAMBDA r : ReadHeaderHere(r.w))

\* zlib.decompress of the n bytes at file position p: the data of the block
\* whose payload starts there when all of its stream is among the n bytes
\* (bytes after the end of the stream are ignored), zlib.error otherwise.
Decompress(p, n) ==
    LET at == { i \in 1..Len(file.blocks) :
                  /\ BlockStart(file, i - 1) + BlockHeaderSize = p
                  /\ file.blocks[i].stored <= n }
    IN  IF at = {} THEN None ELSE Some(file.blocks[CHOOSE i \in at : TRUE].data)

\* ReadRawEntryBlock without the comparison with unpacked_length.
ReadRawEntryBlockUnchecked(w0, header) ==
    LET w1  == AfterRead(w0, header.block_length)
        buf == Decompress(w0.fpos, header.block_length)
    IN  IF IsNone(buf) THEN Raise(w1, "zlib.error") ELSE Ok(w1, Get(buf))

\* DictionaryBody._read_raw_entry_block
ReadRawEntryBlock(w0, header) ==
    LET w1  == AfterRead(w0, header.block_length)
        buf == Decompress(w0.fpos, header.block_length)
    IN  IF IsNone(buf) THEN Raise(w1, "zlib.error")
        ELSE IF Len(Get(buf)) # header.unpacked_length THEN Raise(w1, "RuntimeError")
        ELSE Ok(w1, Get(buf))

\* ------------------------------------------------------------ entry framing

\* EntryFromBlock that reads the text where the header starts, not after it.
EntryFromBlockNoSkip(buf, pos, ehdr) ==
    LET h      == ReadInto(buf, pos, ehdr)
        length == U32Value(h.bytes)
        raw    == ReadInto(buf, pos, Zeros(length))
        dec    == Utf8Decode(raw.bytes)
    IN  [ ok |-> dec.ok, text |-> dec.text, pos |-> h.pos + length, ehdr |-> h.bytes ]

\* DictionaryBody._entry_from_block on the stream `buf` at position `pos`:
\* `ehdr` is the content of the EntryHeader object handed in (zeros if fresh).
EntryFromBlock(buf, pos, ehdr) ==
    LET h      == ReadInto(buf, pos, ehdr)
        length == U32Value(h.bytes)
        raw    == ReadInto(buf, h.pos, Zeros(length))
        dec    == Utf8Decode(raw.bytes)
    IN  [ ok |-> dec.ok, text |-> dec.text, pos |-> raw.pos, ehdr |-> h.bytes ]

\* EntryAt with the offset left out: the entry at the start of the block.
EntryAtFromStart(raw_entries, offset) ==
    EntryFromBlock(raw_entries, 0, Zeros(EntryHeaderSize))

\* _read_entry after the block is read: the entry that starts at `offset`,
\* framed with a fresh EntryHeader from raw_entries[offset:].
EntryAt(raw_entries, offset) ==
    EntryFromBlock(Slice(raw_entries, offset, Len(raw_entries)), 0, Zeros(EntryHeaderSize))

\* collections.namedtuple('BlockOffset', 'block offset')
BlockOffset(block, offset) == [ block |-> block, offset |-> offset ]

\* DictionaryBody.interpret_text: the hook a subclass overrides; what it makes
\* of a text is opaque to the reader.
InterpretText(entry_text) == [ interpreted |-> entry_text ]

\* ---------------------------------------------- the read_all_entries generator

\* A generator object of read_all_entries (with the _read_entries generator it
\* drives): where it stands, and `out`, everything it has yielded so far.
NoGen == [ stage |-> "none", i |-> 0, n |-> 0, header |-> None, buf |-> <<>>,
           bpos |-> 0, ehdr |-> Zeros(EntryHeaderSize), out |-> <<>> ]
NewGen == [ NoGen EXCEPT !.stage = "start" ]

GenResult(w, g, res, exc, val) ==
    [ w |-> w, g |-> g, res |-> res, exc |-> exc, val |-> val ]
GenDead(g) == [ g EXCEPT !.stage = "done", !.buf = <<>>, !.header = None ]

\* Whether the generator's next stretch of code enters a @locked method.
GenNeedsLock(w, g) ==
    CASE g.stage = "opening" -> TRUE
      [] g.stage = "header"  -> g.i < g.n
      [] g.stage = "payload" -> TRUE
      [] OTHER               -> FALSE

\* GenHeader that reads the next header where the handle stands, without
\* going to the block by its index.
GenHeaderHere(w, g) ==
    IF g.i >= g.n THEN GenResult(w, GenDead(g), "stop", "StopIteration", <<>>)
    ELSE With(ReadHeaderHere(w),
              LAMBDA r :
                 IF r.exc # "none" THEN GenResult(r.w, GenDead(g), "raise", r.exc, <<>>)
                 ELSE GenResult(r.w, [ g EXCEPT !.stage = "payload",
                                                !.header = Some(r.val.header) ],
                                "cont", "none", <<>>))

\* GenHeader whose loop ends one block early.
GenHeaderShort(w, g) ==
    IF g.i + 1 >= g.n THEN GenResult(w, GenDead(g), "stop", "StopIteration", <<>>)
    ELSE With(ReadBlockHeader(w, g.i),
              LAMBDA r :
                 IF r.exc # "none" THEN GenResult(r.w, GenDead(g), "raise", r.exc, <<>>)
                 ELSE GenResult(r.w, [ g EXCEPT !.stage = "payload",
                                                !.header = Some(r.val.header) ],
                                "cont", "none", <<>>))

\* for i in range(self._block_count): header, next_block = self._read_block_header(i)
GenHeader(w, g) ==
    IF g.i >= g.n THEN GenResult(w, GenDead(g), "stop", "StopIteration", <<>>)
    ELSE With(ReadBlockHeader(w, g.i),
              LAMBDA r :
                 IF r.exc # "none" THEN GenResult(r.w, GenDead(g), "raise", r.exc, <<>>)
                 ELSE GenResult(r.w, [ g EXCEPT !.stage = "payload",
                                                !.header = Some(r.val.header) ],
                                "cont", "none", <<>>))

\* _read_entries: while entry_buf.tell() < len(buf): ... yield pos, entry_text;
\* at the end of the buffer the outer loop goes on to the next block.
GenEntries(w, g) ==
    IF g.bpos < Len(g.buf)
    THEN With(EntryFromBlock(g.buf, g.bpos, g.ehdr),
              LAMBDA e :
                 IF ~e.ok
                 THEN GenResult(w, GenDead(g), "raise", "UnicodeDecodeError", <<>>)
                 ELSE GenResult(w, [ g EXCEPT !.bpos = e.pos, !.ehdr = e.ehdr,
                                              !.out = Append(@, << g.i, g.bpos, e.text >>) ],
                                "yield", "none", << g.i, g.bpos, e.text >>))
    ELSE GenResult(w, [ g EXCEPT !.stage = "header", !.i = g.i + 1,
                                 !.buf = <<>>, !.bpos = 0, !.header = None ],
                   "cont", "none", <<>>)

\* _read_entries: buf = self._read_raw_entry_block(header);
\* entry_header = structs.EntryHeader()
GenPayload(w, g) ==
    With(ReadRawEntryBlock(w, Get(g.header)),
         LAMBDA r :
            IF r.exc # "none" THEN GenResult(r.w, GenDead(g), "raise", r.exc, <<>>)
            ELSE GenResult(r.w, [ g EXCEPT !.stage = "entries", !.buf = r.val,
                                           !.bpos = 0, !.ehdr = Zeros(EntryHeaderSize) ],
                           "cont", "none", <<>>))

\* if self._f is None: self.open();  range(self._block_count)
GenStart(w, g) ==
    IF ~w.fopen
    THEN GenResult(OpenHandle(w), [ g EXCEPT !.stage = "opening" ], "cont", "none", <<>>)
    ELSE IF IsNone(w.meta)
    THEN GenResult(w, GenDead(g), "raise", "AttributeError", <<>>)
    ELSE GenResult(w, [ g EXCEPT !.stage = "header", !.i = 0,
                                 !.n = Get(w.meta).block_count ],
                   "cont", "none", <<>>)

\* the rest of self.open(): self._read_body_header()
GenOpening(w, g) ==
    With(ReadBodyHeader(w),
         LAMBDA r :
            IF r.exc # "none" THEN GenResult(r.w, GenDead(g), "raise", r.exc, <<>>)
            ELSE GenResult(r.w, [ g EXCEPT !.stage = "start" ], "cont", "none", <<>>))

\* The generator's next stretch of code: at most one @locked call, or the
\* unlocked code up to a yield, a return or a raise.
\* res: "cont" (more to run), "yield", "stop" (StopIteration) or "raise".
GenAtom(w, g) ==
    CASE g.stage = "start"   -> GenStart(w, g)
      [] g.stage = "opening" -> GenOpening(w, g)
      [] g.stage = "header"  -> GenHeader(w, g)
      [] g.stage = "payload" -> GenPayload(w, g)
      [] g.stage = "entries" -> GenEntries(w, g)
      [] OTHER -> GenResult(w, g, "stop", "StopIteration", <<>>)

RECURSIVE GenRun(_, _)
\* next(generator) run to its end by a caller that holds the lock throughout.
GenRun(w, g) ==
    With(GenAtom(w, g), LAMBDA r : IF r.res = "cont" THEN GenRun(r.w, r.g) ELSE r)

\* ------------------------------------------------------------ the title index

\* The title build_index takes from an entry's text; exc is "ValueError"
\* where str.index raises it (`except IndexError` does not catch it).
ExtractTitle(block_text) ==
    LET at == StrIndex(block_text, TitleMarker)
        tag_pos == at + Len(TitleMarker)
        rest == Slice(block_text, tag_pos, Len(block_text))
        quote == StrIndex(rest, <<34>>)
    IN  IF at < 0 THEN [ exc |-> "ValueError", title |-> <<>> ]
        ELSE IF quote < 0 THEN [ exc |-> "ValueError", title |-> <<>> ]
        ELSE [ exc |-> "none", title |-> Slice(rest, 0, quote) ]

\* IndexBuilt without the test: every call scans.
IndexBuiltNever(idx) == FALSE

\* build_index's `if self._index is not None: return`
IndexBuilt(idx) == ~IsNone(idx)

\* IndexAdd that stores a new list for every entry instead of appending.
IndexAddOverwrite(idx, title, b_o) ==
    IF title = <<>> THEN idx
    ELSE (title :> << b_o >>) @@ idx

\* The index after build_index has handled an entry with this title.
IndexAdd(idx, title, b_o) ==
    IF title = <<>> THEN idx
    ELSE IF title \in DOMAIN idx THEN [ idx EXCEPT ![title] = Append(@, b_o) ]
    ELSE (title :> << b_o >>) @@ idx

\* ------------------------------------------------------- modelled containers

\* Entry texts (UTF-8 bytes).  t="a"  and  t="b"
EntryA == << 116, 61, 34, 97, 34 >>
EntryB == << 116, 61, 34, 98, 34 >>
\* t=""  : the marker with an empty title
EntryEmptyTitle == << 116, 61, 34, 34 >>
\* xt="é"b"  : a two-byte character in the title, text around the attribute
EntryAccent == << 120, 116, 61, 34, 195, 169, 34, 98, 34 >>
\* x  : no title marker
EntryNoMarker == << 120 >>
\* t="a  : the marker, and no closing quote
EntryOpenQuote == << 116, 61, 34, 97 >>
\* t="\xff"  : not valid UTF-8
EntryBadUtf8 == << 116, 61, 34, 255, 34 >>

OddEntries == { EntryEmptyTitle, EntryAccent, EntryNoMarker, EntryOpenQuote, EntryBadUtf8 }

\* The titles asked for: "a", "b", "é" and "z" (which no entry carries).
Words == { <<97>>, <<98>>, <<233>>, <<122>> }

RECURSIVE SeqsUpTo(_, _)
\* The sequences over S of length at most n.
SeqsUpTo(S, n) ==
    IF n = 0 THEN { <<>> }
    ELSE LET shorter == SeqsUpTo(S, n - 1)
         IN  shorter \cup { Append(q, x) : q \in shorter, x \in S }

RECURSIVE Shapes(_, _)
\* The ways to spread at most ne entries over at most nb blocks: sequences of
\* block sizes.
Shapes(nb, ne) ==
    IF nb = 0 THEN { <<>> }
    ELSE { <<>> } \cup
         UNION { { << first >> \o rest : rest \in Shapes(nb - 1, ne - first) } :
                 first \in 0..ne }

\* What the entries of a container are, by their place in the scan (1, 2, ..):
\* all "a", "a" and "b" in turn, or "a" with one odd entry in second place.
Streams ==
    { [ j \in 1..(MaxEntries + 1) |-> EntryA ],
      [ j \in 1..(MaxEntries + 1) |-> IF j % 2 = 1 THEN EntryA ELSE EntryB ] }
OddStreams ==
    { [ j \in 1..(MaxEntries + 1) |-> IF j = 2 THEN odd ELSE EntryA ] : odd \in OddEntries }

RECURSIVE SumTo(_, _)
SumTo(shape, b) == IF b = 0 THEN 0 ELSE shape[b] + SumTo(shape, b - 1)

\* The entry texts of each block of a container of this shape.
Layout(shape, stream) ==
    [ b \in 1..Len(shape) |->
        [ e \in 1..shape[b] |-> stream[SumTo(shape, b - 1) + e] ] ]

FileOf(layout) == MkFile([ b \in 1..Len(layout) |-> MkBlock(layout[b]) ])

\* Well-formed files: a valid header, a correct chain, every block's payload
\* decompressing to unpacked_length bytes of whole entries.
PlainFiles ==
    { FileOf(Layout(sh, st)) : sh \in Shapes(MaxBlocks, MaxEntries), st \in Streams }
\* The same with an odd entry in second place, in every container that holds
\* MaxEntries entries.
FullShapes ==
    { sh \in Shapes(MaxBlocks, MaxEntries) : SumTo(sh, Len(sh)) = MaxEntries }
OddFiles ==
    { FileOf(Layout(sh, st)) : sh \in FullShapes, st \in OddStreams }

\* Files whose header carries another check value.
BadCheckFiles ==
    { [ FileOf(<< << EntryA >> >>) EXCEPT !.check = c ] : c \in { 0, 33, 288 } }

\* Files that end inside the header (or right after it): nothing follows.
ShortFiles ==
    { [ len |-> n, check |-> c, stream_length |-> 0, block_count |-> 0, blocks |-> <<>> ] :
        n \in { 0, CheckOffset, CheckOffset + 1, CheckOffset + UIntSize,
                BlockCountOffset + UIntSize, DictHeaderSize - 1, DictHeaderSize },
        c \in { CheckMagic, 33 } }

\* Files of "a" entries with one block whose header states a wrong
\* unpacked_length, or a block_length above the ceiling.
CorruptFiles ==
    UNION { UNION { { [ FileOf(l) EXCEPT !.blocks[b].unpacked_length = @ + 1 ],
                      [ FileOf(l) EXCEPT !.blocks[b].unpacked_length = @ - 1 ],
                      [ FileOf(l) EXCEPT !.blocks[b].block_length = BlockLengthCeiling + 1 ] } :
                    b \in { k \in 1..Len(l) : l[k] # <<>> } } :
            l \in { Layout(sh, [ j \in 1..(MaxEntries + 1) |-> EntryA ]) :
                      sh \in Shapes(MaxBlocks, MaxEntries) } }

\* The files read while two threads share the reader: two blocks of one entry.
SharedFiles ==
    { FileOf(<< << EntryB >>, << EntryA >> >>), FileOf(<< << EntryA >>, << EntryA >> >>) }

\* ------------------------------------------------------------- the threads' calls

NoLoc == [ word |-> <<>>, offs |-> <<>>, k |-> 0, matches |-> <<>>,
           header |-> None, gen |-> NoGen ]

\* What the latest step was: the thread, the method and the part of it that
\* ran, the title asked for (get), the block concerned, what was raised, what
\* was returned or yielded, the seeks and reads done, and whether the call ended.
Step(t, op, stage, word, blk, exc, val, io, done) ==
    [ t |-> t, op |-> op, stage |-> stage, word |-> word, blk |-> blk, exc |-> exc,
      val |-> val, io |-> io, done |-> done ]

\* Acquirable for a lock that its own holder cannot enter again.
AcquirableOnce(t) == lockOwner = "free"

\* `with self._lock` (an RLock) can be entered by t.
Acquirable(t) == lockOwner \in { "free", t }

Commit(w) ==
    /\ fopen' = w.fopen
    /\ fpos' = w.fpos
    /\ meta' = w.meta
    /\ block_pos' = w.block_pos

InitWith(files, caches) ==
    /\ file \in files
    /\ fopen = FALSE
    /\ fpos = 0
    /\ meta = None
    /\ block_pos = None
    /\ index = None
    /\ cache \in caches
    /\ lockOwner = "free"
    /\ pc = [ t \in Threads |-> "idle" ]
    /\ loc = [ t \in Threads |-> NoLoc ]
    /\ iter = [ t \in Threads |-> NoGen ]
    /\ last = Step("t1", "init", "", <<>>, -1, "none", <<>>, <<>>, TRUE)
    /\ nscans = 0

\* open(), first half: self._f = open(self.filename, 'rb')
OpenCall(t) ==
    /\ pc[t] = "idle"
    /\ Commit(OpenHandle(World))
    /\ pc' = [ pc EXCEPT ![t] = "open" ]
    /\ last' = Step(t, "open", "handle", <<>>, -1, "none", <<>>, <<>>, FALSE)
    /\ UNCHANGED << file, index, cache, lockOwner, loc, iter, nscans >>

\* open(), second half: self._read_body_header()
OpenHeader(t) ==
    /\ pc[t] = "open"
    /\ Acquirable(t)
    /\ \E r \in { ReadBodyHeader(World) } :
           /\ Commit(r.w)
           /\ last' = Step(t, "open", "header", <<>>, -1, r.exc, <<>>, r.w.io, TRUE)
    /\ pc' = [ pc EXCEPT ![t] = "idle" ]
    /\ UNCHANGED << file, index, cache, lockOwner, loc, iter, nscans >>

\* _find_blocks()
FindBlocksCall(t) ==
    /\ pc[t] = "idle"
    /\ Acquirable(t)
    /\ \E r \in { FindBlocks(World) } :
           /\ Commit(r.w)
           /\ last' = Step(t, "find_blocks", "", <<>>, -1, r.exc, <<>>, r.w.io, TRUE)
    /\ UNCHANGED << file, index, cache, lockOwner, pc, loc, iter, nscans >>

\* seek_block(block_index)
SeekBlockCall(t, block_index) ==
    /\ pc[t] = "idle"
    /\ Acquirable(t)
    /\ \E r \in { SeekBlock(World, block_index) } :
           /\ Commit(r.w)
           /\ last' = Step(t, "seek_block", "", <<>>, block_index, r.exc, <<>>, r.w.io, TRUE)
    /\ UNCHANGED << file, index, cache, lockOwner, pc, loc, iter, nscans >>

\* read_all_entries(): the @locked wrapper only creates the generator object;
\* none of the generator's code runs inside this `with self._lock`.
IterCall(t) ==
    /\ pc[t] = "idle"
    /\ Acquirable(t)
    /\ iter' = [ iter EXCEPT ![t] = NewGen ]
    /\ last' = Step(t, "read_all_entries", "", <<>>, -1, "none", <<>>, <<>>, TRUE)
    /\ UNCHANGED << file, fopen, fpos, meta, block_pos, index, cache, lockOwner,
                    pc, loc, nscans >>

\* next() on the thread's generator: one stretch of the generator's code.  The
\* thread holds no lock between two stretches.
NextStep(t) ==
    /\ \/ pc[t] = "idle" /\ iter[t].stage # "none"
       \/ pc[t] = "next"
    /\ GenNeedsLock(World, iter[t]) => Acquirable(t)
    /\ \E r \in { GenAtom(World, iter[t]) } :
           /\ Commit(r.w)
           /\ iter' = [ iter EXCEPT ![t] = r.g ]
           /\ pc' = [ pc EXCEPT ![t] = IF r.res = "cont" THEN "next" ELSE "idle" ]
           /\ last' = Step(t, "next", iter[t].stage, <<>>, iter[t].i, r.exc, r.val, r.w.io,
                           r.res # "cont")
    /\ UNCHANGED << file, index, cache, lockOwner, loc, nscans >>

\* build_index(), entered: the early return, or the start of the one scan.
\* The method is @locked and not a generator: the lock is held until it ends.
BuildIndexCall(t) ==
    /\ pc[t] = "idle"
    /\ Acquirable(t)
    /\ IF IndexBuilt(index)
       THEN /\ last' = Step(t, "build_index", "return", <<>>, -1, "none", <<>>, <<>>, TRUE)
            /\ UNCHANGED << index, lockOwner, pc, loc, nscans >>
       ELSE /\ index' = Some(<<>>)
            /\ nscans' = nscans + 1
            /\ lockOwner' = t
            /\ pc' = [ pc EXCEPT ![t] = "build" ]
            /\ loc' = [ loc EXCEPT ![t] = [ NoLoc EXCEPT !.gen = NewGen ] ]
            /\ last' = Step(t, "build_index", "start", <<>>, -1, "none", <<>>, <<>>, FALSE)
    /\ UNCHANGED << file, fopen, fpos, meta, block_pos, cache, iter >>

\* build_index(), one turn of `for block, offset, block_text in
\* self.read_all_entries()`: the next entry and what is done with it.  The
\* @locked methods the scan calls enter the lock the thread already holds.
BuildIndexStep(t) ==
    /\ pc[t] = "build"
    /\ Acquirable(t)
    /\ \E r \in { GenRun(World, loc[t].gen) } :
       \E x \in { IF r.res = "yield" THEN ExtractTitle(r.val[3])
                   ELSE [ exc |-> "none", title |-> <<>> ] } :
       LET exc == IF r.res = "raise" THEN r.exc ELSE x.exc
           more == r.res = "yield" /\ x.exc = "none"
       IN  /\ Commit(r.w)
           /\ index' = IF more
                       THEN Some(IndexAdd(Get(index), x.title, BlockOffset(r.val[1], r.val[2])))
                       ELSE index
           /\ loc' = [ loc EXCEPT ![t] = IF more THEN [ @ EXCEPT !.gen = r.g ] ELSE NoLoc ]
           /\ pc' = [ pc EXCEPT ![t] = IF more THEN "build" ELSE "idle" ]
           /\ lockOwner' = IF more THEN t ELSE "free"
           /\ last' = Step(t, "build_index", "scan", <<>>, -1, exc, <<>>, r.w.io, ~more)
    /\ UNCHANGED << file, cache, iter, nscans >>

\* GetLookup that never finds a word in the cache.
GetLookupUncached(c, idx, word) ==
    IF IsNone(idx) THEN [ exc |-> "TypeError", hit |-> FALSE, val |-> <<>> ]
    ELSE IF word \notin DOMAIN Get(idx)
    THEN [ exc |-> "KeyError", hit |-> FALSE, val |-> <<>> ]
    ELSE [ exc |-> "none", hit |-> FALSE, val |-> Get(idx)[word] ]

\* GetLookup that takes a word the index lacks for a word with no entries.
GetLookupLenient(c, idx, word) ==
    IF ~IsNone(c) /\ word \in DOMAIN Get(c)
    THEN [ exc |-> "none", hit |-> TRUE, val |-> Get(c)[word] ]
    ELSE IF IsNone(idx) THEN [ exc |-> "TypeError", hit |-> FALSE, val |-> <<>> ]
    ELSE IF word \notin DOMAIN Get(idx)
    THEN [ exc |-> "none", hit |-> FALSE, val |-> <<>> ]
    ELSE [ exc |-> "none", hit |-> FALSE, val |-> Get(idx)[word] ]

\* The two lookups that open __getitem__: `return self._cache[word]` when the
\* cache is there and has the word, else `self._index[word]`, which raises
\* TypeError on None and KeyError (re-raised as KeyError) on a missing word.
GetLookup(c, idx, word) ==
    IF ~IsNone(c) /\ word \in DOMAIN Get(c)
    THEN [ exc |-> "none", hit |-> TRUE, val |-> Get(c)[word] ]
    ELSE IF IsNone(idx) THEN [ exc |-> "TypeError", hit |-> FALSE, val |-> <<>> ]
    ELSE IF word \notin DOMAIN Get(idx)
    THEN [ exc |-> "KeyError", hit |-> FALSE, val |-> <<>> ]
    ELSE [ exc |-> "none", hit |-> FALSE, val |-> Get(idx)[word] ]

\* self._cache[word] = matches, when there is a cache.
CacheStore(c, word, matches) ==
    IF IsNone(c) THEN c ELSE Some((word :> matches) @@ Get(c))

\* __getitem__(word), entered: the cache, then the index; no lock is taken.
\* A list of no BlockOffset gives no matches at once.
GetCall(t, word) ==
    /\ pc[t] = "idle"
    /\ \E r \in { GetLookup(cache, index, word) } :
          IF r.hit
          THEN /\ last' = Step(t, "get", "cached", word, -1, "none", r.val, <<>>, TRUE)
               /\ UNCHANGED << pc, loc, cache >>
          ELSE IF r.exc # "none"
          THEN /\ last' = Step(t, "get", "index", word, -1, r.exc, <<>>, <<>>, TRUE)
               /\ UNCHANGED << pc, loc, cache >>
          ELSE IF r.val = <<>>
          THEN /\ last' = Step(t, "get", "index", word, -1, "none", <<>>, <<>>, TRUE)
               /\ cache' = CacheStore(cache, word, <<>>)
               /\ UNCHANGED << pc, loc >>
          ELSE /\ pc' = [ pc EXCEPT ![t] = "get" ]
               /\ loc' = [ loc EXCEPT ![t] = [ NoLoc EXCEPT !.word = word, !.k = 1,
                                                            !.offs = r.val ] ]
               /\ last' = Step(t, "get", "index", word, -1, "none", <<>>, <<>>, FALSE)
               /\ UNCHANGED cache
    /\ UNCHANGED << file, fopen, fpos, meta, block_pos, index, lockOwner, iter, nscans >>

\* _read_entry, first half: header = self._read_block_header(block_offset.block)[0]
GetHeader(t) ==
    /\ pc[t] = "get"
    /\ IsNone(loc[t].header)
    /\ Acquirable(t)
    /\ \E r \in { ReadBlockHeader(World, loc[t].offs[loc[t].k].block) } :
       LET b_o == loc[t].offs[loc[t].k]
       IN  /\ Commit(r.w)
           /\ IF r.exc # "none"
              THEN /\ pc' = [ pc EXCEPT ![t] = "idle" ]
                   /\ loc' = [ loc EXCEPT ![t] = NoLoc ]
              ELSE /\ loc' = [ loc EXCEPT ![t].header = Some(r.val.header) ]
                   /\ UNCHANGED pc
           /\ last' = Step(t, "get", "header", loc[t].word, b_o.block, r.exc, <<>>, r.w.io,
                           r.exc # "none")
    /\ UNCHANGED << file, index, cache, lockOwner, iter, nscans >>

\* _read_entry, second half: the payload is read where the handle stands, the
\* entry at the offset is decoded and interpreted; after the last BlockOffset
\* the matches are cached and returned.
GetPayload(t) ==
    /\ pc[t] = "get"
    /\ ~IsNone(loc[t].header)
    /\ Acquirable(t)
    /\ \E r \in { ReadRawEntryBlock(World, Get(loc[t].header)) } :
       \E e \in { EntryAt(r.val, loc[t].offs[loc[t].k].offset) } :
       LET b_o == loc[t].offs[loc[t].k]
           exc == IF r.exc # "none" THEN r.exc
                  ELSE IF ~e.ok THEN "UnicodeDecodeError" ELSE "none"
           matches == Append(loc[t].matches, InterpretText(e.text))
           finished == loc[t].k = Len(loc[t].offs)
       IN  /\ Commit(r.w)
           /\ IF exc # "none"
              THEN /\ pc' = [ pc EXCEPT ![t] = "idle" ]
                   /\ loc' = [ loc EXCEPT ![t] = NoLoc ]
                   /\ UNCHANGED cache
                   /\ last' = Step(t, "get", "payload", loc[t].word, b_o.block, exc, <<>>,
                                   r.w.io, TRUE)
              ELSE IF finished
              THEN /\ pc' = [ pc EXCEPT ![t] = "idle" ]
                   /\ loc' = [ loc EXCEPT ![t] = NoLoc ]
                   /\ cache' = CacheStore(cache, loc[t].word, matches)
                   /\ last' = Step(t, "get", "payload", loc[t].word, b_o.block, "none", matches,
                                   r.w.io, TRUE)
              ELSE /\ loc' = [ loc EXCEPT ![t].matches = matches, ![t].k = @ + 1,
                                          ![t].header = None ]
                   /\ UNCHANGED << pc, cache >>
                   /\ last' = Step(t, "get", "payload", loc[t].word, b_o.block, "none", <<>>,
                                   r.w.io, FALSE)
    /\ UNCHANGED << file, index, lockOwner, iter, nscans >>

\* ---------------------------------------------------------- specifications

Calls(t) ==
    \/ OpenCall(t)
    \/ OpenHeader(t)
    \/ FindBlocksCall(t)
    \/ \E i \in 0..MaxBlocks : SeekBlockCall(t, i)
    \/ IterCall(t)
    \/ NextStep(t)
    \/ BuildIndexCall(t)
    \/ BuildIndexStep(t)
    \/ \E word \in Words : GetCall(t, word)
    \/ GetHeader(t)
    \/ GetPayload(t)

\* The calls two threads make at the same time.
SharedCalls(t) ==
    \/ IterCall(t)
    \/ NextStep(t)
    \/ BuildIndexCall(t)
    \/ BuildIndexStep(t)
    \/ \E word \in Words : GetCall(t, word)
    \/ GetHeader(t)
    \/ GetPayload(t)

\* Two threads share one reader of a well-formed file.
Init == InitWith(SharedFiles, { None })
Next == \E t \in Threads : SharedCalls(t)
Spec == Init /\ [][Next]_vars

\* One thread reads a well-formed file, or one with an odd entry.
InitSeq == InitWith(PlainFiles \cup OddFiles, { None })
NextSeq == Calls("t1")
SpecSeq == InitSeq /\ [][NextSeq]_vars

\* One thread reads a well-formed file through a reader made with cache=True.
CacheFiles == { FileOf(Layout(sh, st)) : sh \in FullShapes, st \in Streams }
InitCache == InitWith(CacheFiles, { Some(<<>>) })
NextCache == Calls("t1")
SpecCache == InitCache /\ [][NextCache]_vars

\* One thread reads a file of three blocks of one entry, one of whose headers
\* states a block_length above the ceiling.
ChainFiles ==
    { [ FileOf(<< << EntryA >>, << EntryA >>, << EntryA >> >>)
          EXCEPT !.blocks[b].block_length = BlockLengthCeiling + 1 ] : b \in 1..3 }
InitChain == InitWith(ChainFiles, { None })
NextChain == Calls("t1")
SpecChain == InitChain /\ [][NextChain]_vars

\* The steps that carry on a call thread t is in the middle of.
Continue(t) ==
    \/ OpenHeader(t)
    \/ pc[t] = "next" /\ NextStep(t)
    \/ BuildIndexStep(t)
    \/ GetHeader(t)
    \/ GetPayload(t)

\* Thread t is in the middle of a call and can enter the lock, which is free
\* or t's own.  Continue(t) is enabled then: each of its steps is a guard on
\* pc[t] and the lock followed by assignments that change pc[t], loc[t] or
\* iter[t].
Ready(t) == pc[t] # "idle" /\ Acquirable(t)

\* Weak fairness of Continue(t), with Ready(t) in the place of
\* ENABLED <<Continue(t)>>_vars: a thread that stays able to go on does go on.
\* As Ready(t) implies that Continue(t) is enabled, WF_vars(Continue(t))
\* implies Fair(t): what holds under Fair holds under weak fairness.
Fair(t) == []<>(~Ready(t)) \/ []<><<Continue(t)>>_vars

\* Two threads make every call on one reader of a block of two entries, each
\* thread scheduled fairly.
LiveFiles == { FileOf(<< << EntryA, EntryB >> >>) }
InitLive == InitWith(LiveFiles, { None })
NextLive == \E t \in Threads : Calls(t)
SpecLive == InitLive /\ [][NextLive]_vars /\ \A t \in Threads : Fair(t)

\* One thread reads a file with a bad or short header, or a corrupt block.
InitBad == InitWith(BadCheckFiles \cup ShortFiles \cup CorruptFiles, { None })
NextBad == Calls("t1")
SpecBad == InitBad /\ [][NextBad]_vars

\* One thread enumerates a file of one block: the entry framer on every
\* buffer of at most MaxEntries entries.
FramerTexts == { <<>>, << 97 >>, << 195, 169 >>, << 34, 0 >>, EntryA }
FramerFiles == { FileOf(<< texts >>) : texts \in SeqsUpTo(FramerTexts, MaxEntries) }
InitFramer == InitWith(FramerFiles, { None })
NextFramer == IterCall("t1") \/ NextStep("t1")
SpecFramer == InitFramer /\ [][NextFramer]_vars

\* ------------------------------------------------- what the file was written as

RECURSIVE EntryOffset(_, _)
\* Where the k-th entry (k = 1, 2, ..) of a block with these texts starts.
EntryOffset(texts, k) ==
    IF k = 1 THEN 0
    ELSE EntryOffset(texts, k - 1) + EntryHeaderSize + Len(texts[k - 1])

\* The entries written into block b (0-based): (block, offset, decoded text).
WrittenIn(fl, b) ==
    LET texts == fl.blocks[b + 1].texts
    IN  [ k \in 1..Len(texts) |-> << b, EntryOffset(texts, k), Utf8Decode(texts[k]).text >> ]

RECURSIVE WrittenUpTo(_, _)
WrittenUpTo(fl, nb) ==
    IF nb = 0 THEN <<>> ELSE WrittenUpTo(fl, nb - 1) \o WrittenIn(fl, nb - 1)

\* Every entry of the file, block after block.
Written(fl) == WrittenUpTo(fl, Len(fl.blocks))

\* A valid header, a chain that leads from block to block, payloads that
\* decompress to unpacked_length bytes, entries that are valid UTF-8.
WellFormed(fl) ==
    /\ fl.len = DictHeaderSize + BlocksSize(fl.blocks)
    /\ fl.check = CheckMagic
    /\ fl.block_count = Len(fl.blocks)
    /\ \A b \in 1..Len(fl.blocks) :
          LET blk == fl.blocks[b]
          IN  /\ blk.block_length = blk.stored
              /\ blk.next_block = blk.stored + UnpackedLengthOffset
              /\ blk.unpacked_length = Len(blk.data)
              /\ blk.data = BlockData(blk.texts)
              /\ \A k \in 1..Len(blk.texts) : Utf8Decode(blk.texts[k]).ok

\* The title marker stands at (0-based) position p of the text.
MarkerAt(text, p) ==
    /\ p + Len(TitleMarker) <= Len(text)
    /\ \A j \in 1..Len(TitleMarker) : text[p + j] = TitleMarker[j]

\* The text has the title attribute: a marker and a '"' after it.
HasTitle(text) ==
    \E p \in 0..Len(text) :
        MarkerAt(text, p) /\ \E q \in (p + Len(TitleMarker) + 1)..Len(text) : text[q] = 34

\* The title: what stands between the first marker and the next '"'.
TitleOf(text) ==
    LET p == CHOOSE x \in 0..Len(text) :
                 MarkerAt(text, x) /\ \A y \in 0..(x - 1) : ~MarkerAt(text, y)
        from == p + Len(TitleMarker) + 1
        q == CHOOSE x \in from..Len(text) :
                 text[x] = 34 /\ \A y \in from..(x - 1) : text[y] # 34
    IN  SubSeq(text, from, q - 1)

\* The (block, offset) of a scanned entry.
OffsetOf(entry) == BlockOffset(entry[1], entry[2])

\* The offsets, in scan order, of the entries of `entries` titled `title`.
OffsetsOf(entries, title) ==
    LET hit == SelectSeq(entries, LAMBDA e : HasTitle(e[3]) /\ TitleOf(e[3]) = title)
    IN  [ k \in 1..Len(hit) |-> OffsetOf(hit[k]) ]

\* The index that the entries call for.
IndexOf(entries) ==
    LET titles == { TitleOf(entries[k][3]) : k \in { j \in 1..Len(entries) :
                                                      HasTitle(entries[j][3]) } }
    IN  [ title \in titles \ { <<>> } |-> OffsetsOf(entries, title) ]

RECURSIVE Drain(_, _)
\* Everything a generator yields when it is run to its end without a pause.
Drain(w, g) ==
    With(GenRun(w, g), LAMBDA r : IF r.res = "yield" THEN Drain(r.w, r.g) ELSE r.g.out)

\* What the full scan, read_all_entries() on a newly made reader, yields.
FullScan ==
    Drain([ fopen |-> FALSE, fpos |-> 0, meta |-> None, block_pos |-> None, io |-> <<>> ],
          NewGen)

\* The text the full scan yielded at a BlockOffset (<<>> if it yielded none).
ScanTextsAt(b_o) ==
    LET hit == SelectSeq(FullScan, LAMBDA e : OffsetOf(e) = b_o)
    IN  [ k \in 1..Len(hit) |-> hit[k][3] ]

\* --------------------------------------------------------------------- claims

\* C1: with the index built, a get(t) that returns gives a list as long as
\* index[t] whose k-th element is the interpretation of the text the full scan
\* yielded at the k-th BlockOffset of index[t].
C1_GetMatchesScan ==
    (last.op = "get" /\ last.done /\ last.exc = "none") =>
        LET offs == Get(index)[last.word]
        IN  /\ Len(last.val) = Len(offs)
            /\ \A k \in 1..Len(offs) :
                  ScanTextsAt(offs[k]) = << last.val[k].interpreted >>
            /\ \A k \in 1..Len(offs) :
                  last.val[k] = InterpretText(ScanTextsAt(offs[k])[1])

\* C1 witness: a title carried by an entry of each of two blocks was looked
\* up, and both entries came back.
C1_Witness ==
    /\ last.op = "get" /\ last.done /\ last.exc = "none" /\ last.stage = "payload"
    /\ WellFormed(file)
    /\ Len(last.val) = 2
    /\ Get(index)[last.word][1].block # Get(index)[last.word][2].block
    /\ Get(index)[last.word][2].offset > 0

\* C2: when build_index has scanned the file and returns, the index maps each
\* non-empty title to the BlockOffsets of exactly the entries that carry it,
\* in scan order, and holds nothing else.
C2_IndexIsExact ==
    (last.op = "build_index" /\ last.stage = "scan" /\ last.done /\ last.exc = "none") =>
        index = Some(IndexOf(Written(file)))

\* C2 witness: the scan ended with a title that two entries carry and an entry
\* with an empty title that is in no list.
C2_Witness ==
    /\ last.op = "build_index" /\ last.stage = "scan" /\ last.done /\ last.exc = "none"
    /\ \E title \in DOMAIN Get(index) : Len(Get(index)[title]) = 2
    /\ \E k \in 1..Len(Written(file)) :
          /\ HasTitle(Written(file)[k][3]) /\ TitleOf(Written(file)[k][3]) = <<>>
          /\ \A title \in DOMAIN Get(index) : \A j \in 1..Len(Get(index)[title]) :
                Get(index)[title][j] # OffsetOf(Written(file)[k])

\* C3: open() returns normally exactly when the file holds the whole 0x60-byte
\* header and its check field is 0x20, and raises ValueError otherwise; after a
\* normal return block_count and stream_length are the header's and the
\* position table is {0: 0x60}, after a failure there is no table.
C3_OpenIffWholeValidHeader ==
    (last.op = "open" /\ last.stage = "header") =>
        /\ last.exc \in { "none", "ValueError" }
        /\ last.exc = "none" <=> (file.len >= DictHeaderSize /\ file.check = CheckMagic)
        /\ last.exc = "none" =>
              /\ meta = Some([ stream_length |-> file.stream_length,
                               block_count |-> file.block_count ])
              /\ block_pos = Some((0 :> DictHeaderSize))
        /\ last.exc # "none" => IsNone(block_pos)

\* C4: whenever get() or the read_all_entries() generator reads a block's
\* payload, the handle stands right after that block's header.
C4_PayloadReadAfterOwnHeader ==
    (last.op \in { "get", "next" } /\ last.stage = "payload") =>
        last.io[1].at = BlockStart(file, last.blk) + BlockHeaderSize

\* The pairs (as triples of block 0) a buffer of these entries must give.
Framed(texts) ==
    [ k \in 1..Len(texts) |-> << 0, EntryOffset(texts, k), Utf8Decode(texts[k]).text >> ]

\* C5: on a buffer of k length-prefixed, validly encoded entries _read_entries
\* yields (offset_i, text_i) for i = 1..k, with offset_1 = 0 and offset_(i+1) =
\* offset_i + 4 + N_i and text_i the decoding of the i-th payload, its cursor
\* after each standing at the next offset, and after the k-th it stops.
C5_FramerRoundTrip ==
    LET g == iter["t1"]
        texts == file.blocks[1].texts
        m == Len(g.out)
    IN  /\ g.stage = "entries" =>
              /\ m <= Len(texts)
              /\ g.out = SubSeq(Framed(texts), 1, m)
              /\ g.bpos = IF m = 0 THEN 0
                          ELSE EntryOffset(texts, m) + EntryHeaderSize + Len(texts[m])
        /\ (g.stage = "done" \/ (g.stage = "header" /\ g.i > 0)) => g.out = Framed(texts)

\* C5 witness: a buffer of three entries, one of them empty and one with a
\* two-byte character, has been framed to its end.
C5_Witness ==
    LET g == iter["t1"]
    IN  /\ g.stage = "done"
        /\ Len(g.out) = 3
        /\ g.out[1][3] = <<>>
        /\ g.out[2][3] = << 233 >>
        /\ g.out[3][2] = 10

\* C6: on a well-formed file the generator of read_all_entries(), once it has
\* raised StopIteration, has yielded every entry of every block once, block
\* after block and within a block by rising offset.
C6_ScanYieldsAllOnce ==
    (WellFormed(file) /\ last.op = "next" /\ last.exc = "StopIteration") =>
        LET out == iter[last.t].out
        IN  /\ out = Written(file)
            /\ \A j, k \in 1..Len(out) :
                  j < k => \/ out[j][1] < out[k][1]
                           \/ out[j][1] = out[k][1] /\ out[j][2] < out[k][2]
            /\ file.block_count = 0 => out = <<>>

\* C6 witness: a scan of two blocks, three entries in all, has ended.
C6_Witness ==
    /\ WellFormed(file) /\ last.op = "next" /\ last.exc = "StopIteration"
    /\ Len(iter[last.t].out) = 3
    /\ iter[last.t].out[1][1] = 0
    /\ iter[last.t].out[3][1] = 1

\* C7: a _find_blocks() call that follows a completed _find_blocks() call
\* leaves the position table as it is and does no seek and no read.
C7_FindBlocksIdempotent ==
    [][ (last.op = "find_blocks" /\ last.exc = "none" /\ last'.op = "find_blocks") =>
            (block_pos' = block_pos /\ last'.io = <<>>) ]_vars

\* C8: build_index() scans at most once: there is never a second scan, and a
\* call made when the index exists returns at once, with no seek and no read,
\* the index and the handle as they were.
C8_ScansAtMostOnce ==
    /\ [](nscans <= 1)
    /\ [][ \A t \in Threads :
              (pc[t] = "idle" /\ ~IsNone(index) /\ last'.t = t /\ last'.op = "build_index") =>
                  /\ last'.done /\ last'.exc = "none" /\ last'.io = <<>>
                  /\ index' = index /\ fpos' = fpos /\ nscans' = nscans ]_vars

\* C8 witness: the second thread's build_index() returned at once after the
\* first thread's scan had filled the index.
C8_Witness ==
    /\ last.op = "build_index" /\ last.stage = "return" /\ last.t = "t2"
    /\ nscans = 1
    /\ DOMAIN Get(index) # {}

\* C9: _read_raw_entry_block raises RuntimeError for a block whose payload
\* does not decompress to unpacked_length bytes, and when it returns a buffer
\* that buffer is the block's data, unpacked_length bytes long.
C9_UnpackedLengthChecked ==
    (last.op \in { "get", "next" } /\ last.stage = "payload") =>
        LET blk == file.blocks[last.blk + 1]
        IN  /\ Len(blk.data) # blk.unpacked_length => last.exc = "RuntimeError"
            /\ Len(blk.data) = blk.unpacked_length => last.exc = "none"
            /\ (last.op = "next" /\ last.exc = "none") =>
                  /\ iter[last.t].buf = blk.data
                  /\ Len(iter[last.t].buf) = blk.unpacked_length

\* C9 witness: a payload read ended in RuntimeError.
C9_Witness ==
    /\ last.op \in { "get", "next" } /\ last.stage = "payload"
    /\ last.exc = "RuntimeError"
    /\ Len(file.blocks[last.blk + 1].data) # file.blocks[last.blk + 1].unpacked_length

\* The text holds the title marker.
HasMarker(text) == \E p \in 0..Len(text) : MarkerAt(text, p)

\* C10: on a well-formed file whose entries either lack the title marker or
\* carry a title, build_index() returns normally and the index holds exactly
\* the titled entries.
C10_MarkerlessSkipped ==
    ( /\ last.op = "build_index" /\ last.stage = "scan" /\ last.done
      /\ WellFormed(file)
      /\ \A k \in 1..Len(Written(file)) :
            ~HasMarker(Written(file)[k][3]) \/ HasTitle(Written(file)[k][3]) ) =>
        /\ last.exc = "none"
        /\ index = Some(IndexOf(Written(file)))

\* C11: with the cache enabled, a get() that returns normally leaves its list
\* in the cache under its word, and every get() for a word the cache holds
\* returns that list at once: no seek, no read, the handle and the cache as
\* they were.
C11_CachedGetDoesNoIO ==
    /\ [](( ~IsNone(cache) /\ last.op = "get" /\ last.done /\ last.exc = "none" ) =>
             ( last.word \in DOMAIN Get(cache) /\ Get(cache)[last.word] = last.val ))
    /\ [][ ( /\ ~IsNone(cache)
             /\ pc["t1"] = "idle"
             /\ last'.op = "get" /\ last'.stage \in { "cached", "index" }
             /\ last'.word \in DOMAIN Get(cache) ) =>
               /\ last'.done /\ last'.exc = "none"
               /\ last'.val = Get(cache)[last'.word]
               /\ last'.io = <<>>
               /\ fpos' = fpos /\ cache' = cache /\ pc' = pc ]_vars

\* C11 witness: a second get() of a word with two entries was served from the
\* cache, the handle standing where the first get() left it.
C11_Witness ==
    /\ last.op = "get" /\ last.stage = "cached"
    /\ Len(last.val) = 2
    /\ last.io = <<>>
    /\ fpos > DictHeaderSize

\* C12: with the index built, get() of a word the index lacks raises KeyError
\* and changes nothing: no seek, no read, and the handle, the index, the
\* position table and the cache are as before the call.
C12_MissingWordChangesNothing ==
    [][ ( /\ ~IsNone(index)
          /\ pc["t1"] = "idle"
          /\ last'.op = "get"
          /\ last'.word \notin DOMAIN Get(index) ) =>
            /\ last'.done /\ last'.exc = "KeyError"
            /\ last'.io = <<>>
            /\ UNCHANGED << fopen, fpos, meta, block_pos, index, cache, pc, iter >> ]_vars

\* C12 witness: get() of a missing word raised KeyError on a reader whose
\* index and cache hold other words and whose handle has been moved.
C12_Witness ==
    /\ last.op = "get" /\ last.exc = "KeyError"
    /\ ~IsNone(index) /\ DOMAIN Get(index) # {}
    /\ ~IsNone(cache) /\ DOMAIN Get(cache) # {}
    /\ ~IsNone(block_pos) /\ Cardinality(DOMAIN Get(block_pos)) = 2
    /\ fpos > DictHeaderSize

\* C13: get() on a reader whose index was never built either raises
\* NotIndexedError or builds the index; it raises nothing else.
C13_UnbuiltIndexGet ==
    [][ ( IsNone(index) /\ pc["t1"] = "idle" /\ last'.op = "get" ) =>
            ( last'.exc = "NotIndexedError" \/ ~IsNone(index') ) ]_vars

\* C14: seek_block(i) leaves the handle at the start of block i's header for
\* i in 0..block_count-1 and raises ValueError for every other i.
C14_SeekBlockRange ==
    ( last.op = "seek_block" /\ WellFormed(file) ) =>
        IF last.blk \in 0..(file.block_count - 1)
        THEN last.exc = "none" /\ fpos = BlockStart(file, last.blk)
        ELSE last.exc = "ValueError"

\* The entries written into block b that decode: (block, offset, text).
DecodableIn(fl, b) ==
    LET texts == fl.blocks[b + 1].texts
    IN  { << b, EntryOffset(texts, k), Utf8Decode(texts[k]).text >> :
            k \in { j \in 1..Len(texts) : Utf8Decode(texts[j]).ok } }

\* C15: an entry that does not decode raises UnicodeDecodeError for that entry
\* only: once the enumeration has ended, every entry that decodes has been
\* yielded, those after the undecodable one included.
C15_UndecodableEntryOnly ==
    ( last.op = "next" /\ last.exc = "StopIteration" ) =>
        \A b \in 0..(Len(file.blocks) - 1) :
            \A e \in DecodableIn(file, b) :
                \E k \in 1..Len(iter[last.t].out) : iter[last.t].out[k] = e

\* C16: after a completed _find_blocks() on a container of n >= 1 blocks the
\* table has the keys 0..n-1, table[0] = 0x60 and table[i+1] = table[i] + 0x0c
\* + next_block_i - 8, next_block_i being the first field of the header that
\* stands at table[i].
C16_PositionTableArithmetic ==
    ( last.op = "find_blocks" /\ last.exc = "none" /\ file.block_count >= 1 ) =>
        LET table == Get(block_pos)
            n == file.block_count
        IN  /\ DOMAIN table = 0..(n - 1)
            /\ table[0] = DictHeaderSize
            /\ \A i \in 0..(n - 2) :
                  table[i + 1] = (table[i] + BlockHeaderSize)
                                   + HeaderAt(table[i]).next_block - UnpackedLengthOffset

\* C16 witness: discovery has ended on two blocks that hold entries.
C16_Witness ==
    /\ last.op = "find_blocks" /\ last.exc = "none"
    /\ file.block_count = 2
    /\ \A b \in 1..2 : file.blocks[b].texts # <<>>
    /\ Get(block_pos)[1] > DictHeaderSize + BlockHeaderSize

\* C17: a table that _find_blocks takes for complete (more than one entry)
\* holds an offset for every block 0..block_count-1, so that seek_block(j)
\* never lacks the entry of a valid j.
C17_TableCompleteWhenFound ==
    /\ ( ~IsNone(block_pos) /\ ~IsNone(meta) /\ AlreadyFound(Get(block_pos)) ) =>
           \A j \in 0..(Get(meta).block_count - 1) : j \in DOMAIN Get(block_pos)
    /\ ( last.op = "seek_block" /\ last.blk \in 0..(file.block_count - 1) ) =>
           last.exc # "KeyError"

\* C18: an index that get() can see holds every titled entry: get() never
\* raises KeyError for a title that an entry of the container carries.
C18_VisibleIndexIsComplete ==
    ( last.op = "get" /\ last.exc = "KeyError" ) =>
        last.word \notin DOMAIN IndexOf(Written(file))

\* C19: whatever calls the thread makes between two steps of its generator,
\* on a well-formed file the generator has at every moment yielded a prefix
\* of the written entries, each yield is the next written entry, and at
\* StopIteration it has yielded them all.
C19_InterleavedGetsKeepScan ==
    WellFormed(file) =>
        LET out == iter["t1"].out
            all == Written(file)
        IN  /\ Len(out) <= Len(all)
            /\ out = SubSeq(all, 1, Len(out))
            /\ ( last.op = "next" /\ last.done /\ last.exc = "none" ) =>
                   last.val = all[Len(out)]
            /\ ( last.op = "next" /\ last.exc = "StopIteration" ) => Len(out) = Len(all)

\* C19 witness: a get() has just read an entry of block 0 and returned while
\* the generator, which has yielded the first entry of block 1, has another
\* entry of block 1 to yield.
C19_Witness ==
    /\ WellFormed(file)
    /\ last.op = "get" /\ last.stage = "payload" /\ last.done /\ last.exc = "none"
    /\ last.blk = 0
    /\ iter["t1"].stage = "entries" /\ iter["t1"].i = 1
    /\ iter["t1"].bpos > 0
    /\ iter["t1"].bpos < Len(iter["t1"].buf)

\* C20: no call waits for the lock for ever: a thread that is in the middle
\* of a call comes to its end, and a lock that is held is released.
C20_NoCallBlocksForEver ==
    /\ \A t \in Threads : (pc[t] # "idle") ~> (pc[t] = "idle")
    /\ (lockOwner # "free") ~> (lockOwner = "free")

\* C20 witness: a thread inside build_index(), holding the lock, has entered
\* it again for a step of the scan while the other thread's generator is
\* partly consumed.
C20_Witness ==
    /\ lockOwner = "t1" /\ pc["t1"] = "build"
    /\ last.op = "build_index" /\ last.stage = "scan" /\ last.t = "t1"
    /\ iter["t2"].stage = "entries"
    /\ Len(iter["t2"].out) = 1

====
